---- MODULE Spec2Model ----
(***************************************************************************)
(* Occupancy prediction service: the feature pipeline (transformers.py),   *)
(* the predictor wrapper (model.py) and the HTTP handlers (main.py).       *)
(*                                                                         *)
(* Numbers are IEEE-like extended rationals: a finite value n/d, NaN,      *)
(* +inf or -inf, so that a missing predecessor (NaN), a division by zero   *)
(* (inf or NaN) and pandas' fillna are modelled by what they do.           *)
(***************************************************************************)
EXTENDS Integers, Sequences, FiniteSets, TLC

VARIABLES
    lambda_,      \* TransformCO2.lambda_ of the pipeline object (None until fit)
    input,        \* the batch of readings the transformers are called on
    call,         \* the last transformer call: op, result
    artifact,     \* what is stored at model_path
    phase,        \* process life cycle: "starting", "ready" or "failed"
    predictor,    \* model.py global `predictor` (None or an OccupancyPredictor)
    loadLog,      \* who ran OccupancyPredictor._load_model, in order
    returned,     \* ids of the instances get_predictor has returned
    reqLog,       \* the /predict requests handled so far with their outcome
    response      \* the last HTTP response produced by a handler

vars == <<lambda_, input, call, artifact, phase, predictor, loadLog, returned, reqLog, response>>

None == "None"

----------------------------------------------------------------------------
(* Bounds *)

MaxBatch == 2        \* longest batch handed to a transformer
MaxRequests == 3     \* /predict requests per run

----------------------------------------------------------------------------
(* float64 values as extended rationals *)

Abs(x) == IF x < 0 THEN -x ELSE x

RECURSIVE GCD(_, _)
GCD(a, b) == IF b = 0 THEN a ELSE GCD(b, a % b)

\* Python None where a float is expected (lambda_ before fit)
NoneVal == [k |-> "none", n |-> 0, d |-> 1]

NaN == [k |-> "nan", n |-> 0, d |-> 1]
PInf == [k |-> "inf", n |-> 1, d |-> 1]
NInf == [k |-> "inf", n |-> -1, d |-> 1]

Q(n, d) ==
    LET s == IF d < 0 THEN -1 ELSE 1
        g == GCD(Abs(n), Abs(d))
    IN  [k |-> "num", n |-> (s * n) \div g, d |-> (s * d) \div g]

Num(n) == Q(n, 1)

IsNaN(v) == v.k = "nan"
IsInf(v) == v.k = "inf"
IsNum(v) == v.k = "num"
Sign(v) == IF v.n < 0 THEN -1 ELSE 1
InfOf(s) == IF s < 0 THEN NInf ELSE PInf

\* a - b
VSub(a, b) ==
    IF IsNaN(a) \/ IsNaN(b) THEN NaN
    ELSE IF IsInf(a) THEN (IF IsInf(b) /\ b.n = a.n THEN NaN ELSE a)
    ELSE IF IsInf(b) THEN InfOf(-b.n)
    ELSE LET g == GCD(a.d, b.d)
         IN  Q(a.n * (b.d \div g) - b.n * (a.d \div g), (a.d \div g) * b.d)

\* a / b : x/0 is +-inf, 0/0 is NaN, no exception (numpy semantics)
VDiv(a, b) ==
    IF IsNaN(a) \/ IsNaN(b) THEN NaN
    ELSE IF IsInf(a) THEN (IF IsInf(b) THEN NaN ELSE InfOf(Sign(a) * Sign(b)))
    ELSE IF IsInf(b) THEN Num(0)
    ELSE IF b.n = 0 THEN (IF a.n = 0 THEN NaN ELSE InfOf(Sign(a)))
    ELSE Q(a.n * b.d, a.d * b.n)

RECURSIVE IPow(_, _)
IPow(b, e) == IF e = 0 THEN 1 ELSE b * IPow(b, e - 1)

\* v ^ p for a finite positive v and an integer p
VPow(v, p) ==
    IF p >= 0 THEN Q(IPow(v.n, p), IPow(v.d, p))
    ELSE Q(IPow(v.d, -p), IPow(v.n, -p))

\* a timestamp, in seconds since a Monday 00:00:00
Time(s) == [k |-> "time", n |-> s, d |-> 1]

----------------------------------------------------------------------------
(* pandas DataFrame: ordered column names and rows (column name -> value) *)

NRows(df) == Len(df.rows)

HasCol(df, c) == \E j \in 1..Len(df.cols) : df.cols[j] = c

\* the sequence <<F(1), ..., F(n)>>
RECURSIVE SeqOf(_, _)
SeqOf(F(_), n) == IF n = 0 THEN <<>> ELSE Append(SeqOf(F, n - 1), F(n))

Col(df, c) == LET At(i) == df.rows[i][c] IN SeqOf(At, NRows(df))

\* row r with column c set to v
WithCol(r, c, v) ==
    IF c \in DOMAIN r THEN [r EXCEPT ![c] = v] ELSE r @@ (c :> v)

\* data[c] = vals : replaces the column in place, or appends a new one
SetCol(df, c, vals) ==
    LET At(i) == WithCol(df.rows[i], c, vals[i])
    IN  [cols |-> IF HasCol(df, c) THEN df.cols ELSE Append(df.cols, c),
         rows |-> SeqOf(At, NRows(df))]

\* the drop left out
DropCol_skipped(df, c) == df

\* data.drop(columns=[c], inplace=True)
DropCol(df, c) ==
    LET At(i) == [x \in (DOMAIN df.rows[i]) \ {c} |-> df.rows[i][x]]
    IN  [cols |-> SelectSeq(df.cols, LAMBDA x : x # c),
         rows |-> SeqOf(At, NRows(df))]

\* fillna left out
FillNa_skipped(df, v) == df

\* data.fillna(v, inplace=True) : only NaN is filled, +-inf is kept
FillNa(df, v) ==
    LET At(i) == [x \in DOMAIN df.rows[i] |->
                     IF IsNaN(df.rows[i][x]) THEN v ELSE df.rows[i][x]]
    IN  [cols |-> df.cols, rows |-> SeqOf(At, NRows(df))]

\* series.shift(1)
Shift1(s) == IF s = <<>> THEN <<>> ELSE <<NaN>> \o SubSeq(s, 1, Len(s) - 1)

SeriesSub(a, b) == LET At(i) == VSub(a[i], b[i]) IN SeqOf(At, Len(a))
SeriesDiv(a, b) == LET At(i) == VDiv(a[i], b[i]) IN SeqOf(At, Len(a))

\* total_seconds() not divided by 60
DiffMinutes_seconds(s) ==
    LET At(i) == IF i = 1 THEN NaN ELSE Num(s[i].n - s[i - 1].n)
    IN  SeqOf(At, Len(s))

\* data['datetime'].diff(periods=1).dt.total_seconds()/60 : NaN in row 1
DiffMinutes(s) ==
    LET At(i) == IF i = 1 THEN NaN ELSE Q(s[i].n - s[i - 1].n, 60)
    IN  SeqOf(At, Len(s))

----------------------------------------------------------------------------
(* transformers.py *)

\* scipy boxcox(x, lmbda=l), l a non-zero integer: expm1(l*log(x))/l.
\* No exception: log of a negative is NaN, log(0) is -inf.
boxcox(x, l) ==
    IF ~IsNum(x) THEN NaN
    ELSE IF x.n < 0 THEN NaN
    ELSE IF x.n = 0 THEN (IF l > 0 THEN Q(-1, l) ELSE NInf)
    ELSE VDiv(VSub(VPow(x, l), Num(1)), Num(l))

\* boxcox applied to a column
BoxCoxSeries(s, l) == LET At(i) == boxcox(s[i], l) IN SeqOf(At, Len(s))

\* str(e) of the ValueError that boxcox(x) without lmbda raises
BoxCoxText == "Data must be positive and not constant."

\* boxcox(x) without lmbda raises ValueError on constant or non-positive data
CanEstimate(s) ==
    /\ Len(s) > 0
    /\ \E i \in 1..Len(s) : s[i] # s[1]
    /\ \A i \in 1..Len(s) : IsNum(s[i]) /\ s[i].n > 0

\* trained_lambda ignored: lambda estimated from the data of every call
transform_co2_reestimate(data, trained_lambda, est) ==
    IF CanEstimate(Col(data, "CO2"))
    THEN [err |-> None,
          data |-> SetCol(data, "CO2", BoxCoxSeries(Col(data, "CO2"), est.n)),
          lambda_ |-> est]
    ELSE [err |-> "ValueError", msg |-> BoxCoxText,
          data |-> data, lambda_ |-> NoneVal]

\* transform_co2(data, trained_lambda=...) ; est is the lambda scipy's
\* maximum-likelihood estimate yields when trained_lambda is None
transform_co2(data, trained_lambda, est) ==
    IF trained_lambda = NoneVal
    THEN IF CanEstimate(Col(data, "CO2"))
         THEN [err |-> None,
               data |-> SetCol(data, "CO2", BoxCoxSeries(Col(data, "CO2"), est.n)),
               lambda_ |-> est]
         ELSE [err |-> "ValueError", msg |-> BoxCoxText,
               data |-> data, lambda_ |-> NoneVal]
    ELSE [err |-> None,
          data |-> SetCol(data, "CO2",
                     BoxCoxSeries(Col(data, "CO2"), trained_lambda.n)),
          lambda_ |-> NoneVal]

SinTab == <<0, 259, 500, 707, 866, 966, 1000, 966, 866, 707, 500, 259,
            0, -259, -500, -707, -866, -966, -1000, -966, -866, -707, -500, -259>>

\* np.sin(2*pi*h/24), np.cos(2*pi*h/24), to three decimals
HourSin(h) == Q(SinTab[(h % 24) + 1], 1000)
HourCos(h) == Q(SinTab[((h + 6) % 24) + 1], 1000)

HourOf(t) == (t.n \div 3600) % 24
DayOfWeek(t) == (t.n \div 86400) % 7

\* data[src] - data[src].shift(1)
Delta(data, src) == SeriesSub(Col(data, src), Shift1(Col(data, src)))

\* the columns engineer_features assigns, in the order of the assignments
EngineeredCols ==
    <<"hour", "day_of_week", "hour_sin", "hour_cos",
      "co2_delta", "light_delta", "hr_delta", "temp_delta",
      "co2_rate", "light_rate", "hr_rate", "temp_rate">>

\* the twelve assignments, each appending a new column
engineer_features(data) ==
    LET dt == Col(data, "datetime")
        hour == LET At(i) == Num(HourOf(dt[i])) IN SeqOf(At, Len(dt))
        day_of_week == LET At(i) == Num(DayOfWeek(dt[i])) IN SeqOf(At, Len(dt))
        hour_sin == LET At(i) == HourSin(hour[i].n) IN SeqOf(At, Len(dt))
        hour_cos == LET At(i) == HourCos(hour[i].n) IN SeqOf(At, Len(dt))
        co2_delta == Delta(data, "CO2")
        light_delta == Delta(data, "Light")
        hr_delta == Delta(data, "HumidityRatio")
        temp_delta == Delta(data, "Temperature")
        mins == DiffMinutes(dt)
        At(i) == data.rows[i] @@
                 [hour |-> hour[i], day_of_week |-> day_of_week[i],
                  hour_sin |-> hour_sin[i], hour_cos |-> hour_cos[i],
                  co2_delta |-> co2_delta[i], light_delta |-> light_delta[i],
                  hr_delta |-> hr_delta[i], temp_delta |-> temp_delta[i],
                  co2_rate |-> VDiv(co2_delta[i], mins[i]),
                  light_rate |-> VDiv(light_delta[i], mins[i]),
                  hr_rate |-> VDiv(hr_delta[i], mins[i]),
                  temp_rate |-> VDiv(temp_delta[i], mins[i])]
        assigned ==
            [cols |-> data.cols \o
                      SelectSeq(EngineeredCols, LAMBDA c : ~HasCol(data, c)),
             rows |-> SeqOf(At, NRows(data))]
    IN  FillNa(DropCol(assigned, "datetime"), Num(0))

\* TransformCO2.transform : self.lambda_ is read, never assigned; the second
\* element of the pair transform_co2 returns (field lambda_) is discarded
TransformCO2_transform(X, est) == transform_co2(X, lambda_, est)

\* interior bin edges of the fitted KBinsDiscretizer held by DiscretizeLight
LightBinEdges == <<Num(100), Num(400)>>

VLeq(a, b) == a.n * b.d <= b.n * a.d

\* discretizer.transform : ordinal bin = number of interior edges <= x
BinIndex(x) ==
    Cardinality({j \in 1..Len(LightBinEdges) : VLeq(LightBinEdges[j], x)})

\* str(e) of the ValueError that the discretizer's input check raises
NonFiniteText == "Input contains NaN or infinity."

\* DiscretizeLight.transform : the discretizer checks that its input is
\* finite, then replaces Light by the ordinal bin
DiscretizeLight_transform(X) ==
    IF \A i \in 1..NRows(X) : IsNum(X.rows[i]["Light"])
    THEN [err |-> None,
          data |-> LET At(i) == Num(BinIndex(X.rows[i]["Light"]))
                   IN  SetCol(X, "Light", SeqOf(At, NRows(X)))]
    ELSE [err |-> "ValueError", msg |-> NonFiniteText, data |-> X]

FeatureEngineer_transform(X) == [err |-> None, data |-> engineer_features(X)]

\* one step of the chain: the next stage transforms what the previous one
\* returned, an exception of a stage ends the chain
Then(r, Stage(_)) ==
    IF r.err # None THEN [err |-> r.err, msg |-> r.msg, data |-> r.data]
    ELSE Stage(r.data)

\* the fitted pipeline's transform chain:
\* TransformCO2, then DiscretizeLight, then FeatureEngineer
Pipeline_transform(X, est) ==
    Then(Then(TransformCO2_transform(X, est), DiscretizeLight_transform),
         FeatureEngineer_transform)

----------------------------------------------------------------------------
(* Inputs *)

\* 2015-02-04 17:51:00, a Wednesday, in seconds since Monday 00:00:00
T0 == 2 * 86400 + 17 * 3600 + 51 * 60

Times == {T0, T0 + 300}

Samples ==
    { [Temperature |-> Q(2318, 100), Humidity |-> Q(27272, 1000),
       Light |-> Num(426), CO2 |-> Num(450), HumidityRatio |-> Q(479, 100000)],
      [Temperature |-> Q(205, 10), Humidity |-> Num(30),
       Light |-> Num(0), CO2 |-> Num(400), HumidityRatio |-> Q(4, 1000)],
      [Temperature |-> Q(205, 10), Humidity |-> Num(30),
       Light |-> Num(50), CO2 |-> Num(0), HumidityRatio |-> Q(4, 1000)],
      [Temperature |-> Q(235, 10), Humidity |-> Num(28),
       Light |-> Num(500), CO2 |-> Num(-5), HumidityRatio |-> Q(5, 1000)] }

Readings ==
    { [datetime |-> Time(t), Temperature |-> s.Temperature,
       Humidity |-> s.Humidity, Light |-> s.Light, CO2 |-> s.CO2,
       HumidityRatio |-> s.HumidityRatio] : t \in Times, s \in Samples }

\* fitted values of lambda (non-zero integers keep the transform rational)
Lambdas == {Num(-1), Num(2)}

InputCols == <<"datetime", "Temperature", "Humidity", "Light", "CO2", "HumidityRatio">>

\* a DataFrame built from a sequence of readings
DataFrame(rs) == [cols |-> InputCols, rows |-> rs]

Batches == UNION { [1..n -> Readings] : n \in 1..MaxBatch }

\* training batches for fit: two rows five minutes apart
TrainSets ==
    { <<[datetime |-> Time(T0), Temperature |-> a.Temperature,
         Humidity |-> a.Humidity, Light |-> a.Light, CO2 |-> a.CO2,
         HumidityRatio |-> a.HumidityRatio],
        [datetime |-> Time(T0 + 300), Temperature |-> b.Temperature,
         Humidity |-> b.Humidity, Light |-> b.Light, CO2 |-> b.CO2,
         HumidityRatio |-> b.HumidityRatio]>> :
      a \in {s \in Samples : s.CO2 = Num(450)}, b \in Samples }

NoCall == [op |-> None]
NoPredictor == [k |-> None]
NoResponse == [status |-> 0]

----------------------------------------------------------------------------
(* The transformers called on a batch *)

\* TransformCO2.fit : lambda_ is assigned only when transform_co2 returns
TransformCO2_fit ==
    \E rs \in TrainSets, est \in Lambdas :
        \E r \in {transform_co2(DataFrame(rs), NoneVal, est)} :
            /\ lambda_' = IF r.err = None THEN r.lambda_ ELSE lambda_
            /\ call' = [op |-> "TransformCO2.fit", train |-> rs, err |-> r.err]
            /\ UNCHANGED <<input, artifact, phase, predictor, loadLog, returned,
                           reqLog, response>>

CallTransformCO2 ==
    \E est \in Lambdas :
        \E r \in {TransformCO2_transform(DataFrame(input), est)} :
            /\ call' = [op |-> "TransformCO2.transform", before |-> lambda_,
                        err |-> r.err, out |-> r.data, estimated |-> r.lambda_]
            /\ UNCHANGED <<lambda_, input, artifact, phase, predictor, loadLog,
                           returned, reqLog, response>>

CallFeatureEngineer ==
    \E r \in {FeatureEngineer_transform(DataFrame(input))} :
        /\ call' = [op |-> "FeatureEngineer.transform", before |-> lambda_,
                    err |-> r.err, out |-> r.data]
        /\ UNCHANGED <<lambda_, input, artifact, phase, predictor, loadLog,
                       returned, reqLog, response>>

CallPipeline ==
    \E est \in Lambdas :
        \E r \in {Pipeline_transform(DataFrame(input), est)} :
            /\ call' = [op |-> "Pipeline.transform", before |-> lambda_,
                        err |-> r.err, out |-> r.data]
            /\ UNCHANGED <<lambda_, input, artifact, phase, predictor, loadLog,
                           returned, reqLog, response>>

InitPipe ==
    /\ lambda_ = NoneVal
    /\ input \in Batches
    /\ call = NoCall
    /\ artifact = "pipeline"
    /\ phase = "starting"
    /\ predictor = NoPredictor
    /\ loadLog = <<>>
    /\ returned = {}
    /\ reqLog = <<>>
    /\ response = NoResponse

NextPipe ==
    \/ TransformCO2_fit
    \/ CallTransformCO2
    \/ CallFeatureEngineer
    \/ CallPipeline

SpecPipe == InitPipe /\ [][NextPipe]_vars


----------------------------------------------------------------------------
(* model.py *)

\* OccupancyPredictor.__init__ / _load_model : the instance when the load
\* succeeds; a missing file raises and no instance comes to exist
OccupancyPredictor(id) ==
    IF artifact = "missing"
    THEN [err |-> "FileNotFoundError", self |-> NoPredictor]
    ELSE [err |-> None,
          self |-> [k |-> "OccupancyPredictor", id |-> id, model |-> artifact]]

is_loaded(self) == self.model # None

\* the None check left out: a new instance on every call
get_predictor_always_new(caller) ==
    LET r == OccupancyPredictor(Len(loadLog) + 1)
    IN  [err |-> r.err, loadLog |-> Append(loadLog, caller),
         predictor |-> IF r.err = None THEN r.self ELSE predictor]

\* get_predictor : the value of the global afterwards, the load log
\* afterwards, and the error raised (then nothing is returned)
get_predictor(caller) ==
    IF predictor = NoPredictor
    THEN LET r == OccupancyPredictor(Len(loadLog) + 1)
         IN  [err |-> r.err, loadLog |-> Append(loadLog, caller),
              predictor |-> IF r.err = None THEN r.self ELSE predictor]
    ELSE [err |-> None, loadLog |-> loadLog, predictor |-> predictor]

required_fields_short == <<"datetime", "Temperature", "Humidity", "Light", "CO2">>

required_fields ==
    <<"datetime", "Temperature", "Humidity", "Light", "CO2", "HumidityRatio">>

\* validate_input : only the keys of the dictionary are looked at
\* str(e) of validate_input's ValueError, the list of names left out
MissingText == "Missing required fields"

validate_input(keys) ==
    LET missing_fields == SelectSeq(required_fields, LAMBDA f : f \notin keys)
    IN  IF missing_fields # <<>>
        THEN [err |-> "ValueError", msg |-> MissingText,
              missing |-> missing_fields, ret |-> None]
        ELSE [err |-> None, missing |-> <<>>, ret |-> "True"]

\* a datetime string that does not match "%Y-%m-%d %H:%M:%S"
BadTime == [k |-> "str", n |-> 0, d |-> 1]

\* a retained history: the previous request's reading is put in front
RequestFrame_history(input_data) ==
    [cols |-> InputCols,
     rows |-> IF reqLog # <<>> /\ reqLog[Len(reqLog)].input.datetime.k = "time"
              THEN <<reqLog[Len(reqLog)].input, input_data>>
              ELSE <<input_data>>]

\* pd.DataFrame([input_data]) : one row, columns in the order of the dict,
\* which model_dump() gives in the order the schema declares the fields
RequestFrame(input_data) == [cols |-> InputCols, rows |-> <<input_data>>]

\* stand-in for the fitted classifier: a fixed decision function of the
\* feature row, sensitive to the light bin and to the temperature delta
Classify(row) ==
    IF row["Light"].n >= 1 \/ row["temp_delta"] # Num(0) THEN 1 ELSE 0

ClassifyProba(row) ==
    IF Classify(row) = 1 THEN <<Q(1, 10), Q(9, 10)>> ELSE <<Q(4, 5), Q(1, 5)>>

NoFeatures == [cols |-> <<>>, rows |-> <<>>]

\* OccupancyPredictor.predict, from model.predict on: t is what the
\* pipeline's transform chain gives for the request's DataFrame
Predicted(self, t) ==
    IF t.err # None
    THEN [err |-> t.err, msg |-> t.msg, features |-> NoFeatures]
    ELSE [err |-> None, features |-> t.data,
          prediction |-> Classify(t.data.rows[1]),
          probability |->
              IF self.model = "pipeline_no_proba" THEN NoneVal
              ELSE ClassifyProba(t.data.rows[1])[Classify(t.data.rows[1]) + 1]]

NotLoadedText == "Model is not loaded"

\* str(e) of the ValueError that pd.to_datetime raises
TimeFormatText == "time data does not match format"

\* OccupancyPredictor.predict : every exception is logged and raised again
predict(self, input_data, est) ==
    IF ~is_loaded(self)
    THEN [err |-> "RuntimeError", msg |-> NotLoadedText,
          features |-> NoFeatures]
    ELSE IF input_data.datetime.k # "time"
    THEN [err |-> "ValueError", msg |-> TimeFormatText,
          features |-> NoFeatures]
    ELSE Predicted(self, Pipeline_transform(RequestFrame(input_data), est))

----------------------------------------------------------------------------
(* main.py *)

\* the request bodies that pass the OccupancyInput schema
Requests ==
    { r \in Readings : r.datetime = Time(T0) } \cup
    { [r EXCEPT !.datetime = BadTime] :
        r \in { x \in Readings : x.datetime = Time(T0) /\ x.CO2 = Num(450) } } \cup
    { [r EXCEPT !.Light = PInf] :
        r \in { x \in Readings : x.datetime = Time(T0) /\ x.CO2 = Num(450) } }

\* the exception swallowed: the application starts without a predictor
lifespan_swallow ==
    /\ phase = "starting"
    /\ LET r == get_predictor("lifespan")
       IN  /\ predictor' = r.predictor
           /\ loadLog' = r.loadLog
           /\ returned' = IF r.err = None THEN returned \cup {r.predictor.id}
                          ELSE returned
           /\ phase' = "ready"
    /\ UNCHANGED <<lambda_, input, call, artifact, reqLog, response>>

\* lifespan, startup part: an exception of get_predictor is raised again,
\* the server then never starts serving
lifespan ==
    /\ phase = "starting"
    /\ LET r == get_predictor("lifespan")
       IN  /\ predictor' = r.predictor
           /\ loadLog' = r.loadLog
           /\ returned' = IF r.err = None THEN returned \cup {r.predictor.id}
                          ELSE returned
           /\ phase' = IF r.err = None THEN "ready" ELSE "failed"
    /\ UNCHANGED <<lambda_, input, call, artifact, reqLog, response>>

root ==
    /\ phase = "ready"
    /\ response' = [status |-> 200, handler |-> "root"]
    /\ UNCHANGED <<lambda_, input, call, artifact, phase, predictor, loadLog, returned,
                   reqLog>>

health_check ==
    /\ phase = "ready"
    /\ LET r == get_predictor("health_check")
       IN  /\ predictor' = r.predictor
           /\ loadLog' = r.loadLog
           /\ returned' = IF r.err = None THEN returned \cup {r.predictor.id}
                          ELSE returned
           /\ response' =
                IF r.err # None
                THEN [status |-> 503, handler |-> "health_check",
                      detail |-> "Service unavailable"]
                ELSE [status |-> 200, handler |-> "health_check",
                      model_loaded |-> is_loaded(r.predictor)]
    /\ UNCHANGED <<lambda_, input, call, artifact, phase, reqLog>>

model_info ==
    /\ phase = "ready"
    /\ LET r == get_predictor("model_info")
       IN  /\ predictor' = r.predictor
           /\ loadLog' = r.loadLog
           /\ returned' = IF r.err = None THEN returned \cup {r.predictor.id}
                          ELSE returned
           /\ response' =
                IF r.err # None
                THEN [status |-> 500, handler |-> "model_info",
                      detail |-> "Error retrieving model information"]
                ELSE IF ~is_loaded(r.predictor)
                THEN [status |-> 503, handler |-> "model_info",
                      detail |-> "Model not loaded"]
                ELSE [status |-> 200, handler |-> "model_info", model_loaded |-> TRUE]
    /\ UNCHANGED <<lambda_, input, call, artifact, phase, reqLog>>

GenericText == "Internal server error during prediction"

\* predict_occupancy after validate_input (v) and predict (p): the except
\* clauses and the response
Respond(v, p) ==
    LET e == IF v.err # None THEN v.err ELSE p.err
    IN  IF e = "ValueError"
        THEN [status |-> 422,
              detail |-> IF v.err # None THEN v.msg ELSE p.msg,
              features |-> NoFeatures]
        ELSE IF e # None
        THEN [status |-> 500, detail |-> GenericText,
              features |-> NoFeatures]
        ELSE [status |-> 200,
              prediction |-> IF p.prediction = 1 THEN "Person present"
                             ELSE "Person not present",
              probability |-> p.probability,
              features |-> p.features]

\* the outcome of predict_occupancy for a request body, given the result g
\* of its get_predictor call
PredictOutcome(g, input_data, est) ==
    IF g.err # None
    THEN [status |-> 500, detail |-> GenericText, features |-> NoFeatures]
    ELSE Respond(validate_input(DOMAIN input_data),
                 predict(g.predictor, input_data, est))

predict_occupancy ==
    /\ phase = "ready"
    /\ Len(reqLog) < MaxRequests
    /\ \E input_data \in Requests, est \in Lambdas :
         \E g \in {get_predictor("predict_occupancy")} :
           \E o \in {PredictOutcome(g, input_data, est)} :
             /\ predictor' = g.predictor
             /\ loadLog' = g.loadLog
             /\ returned' = IF g.err = None THEN returned \cup {g.predictor.id}
                            ELSE returned
             /\ reqLog' = Append(reqLog, [input |-> input_data, outcome |-> o])
             /\ response' = [status |-> o.status, handler |-> "predict_occupancy"]
    /\ UNCHANGED <<lambda_, input, call, artifact, phase>>

Init ==
    /\ lambda_ \in Lambdas
    /\ input = <<>>
    /\ call = NoCall
    /\ artifact \in {"pipeline", "pipeline_no_proba", "missing"}
    /\ phase = "starting"
    /\ predictor = NoPredictor
    /\ loadLog = <<>>
    /\ returned = {}
    /\ reqLog = <<>>
    /\ response = NoResponse

Next ==
    \/ lifespan
    \/ root
    \/ health_check
    \/ model_info
    \/ predict_occupancy

Spec == Init /\ [][Next]_vars

----------------------------------------------------------------------------
(* validate_input called on arbitrary dictionaries *)

AllFields ==
    {"datetime", "Temperature", "Humidity", "Light", "CO2", "HumidityRatio",
     "Occupancy", "id"}

CallValidateInput ==
    /\ LET v == validate_input(input)
       IN  call' = [op |-> "validate_input", err |-> v.err,
                    missing |-> v.missing, ret |-> v.ret]
    /\ UNCHANGED <<lambda_, input, artifact, phase, predictor, loadLog, returned,
                   reqLog, response>>

InitValidate ==
    /\ lambda_ = NoneVal
    /\ input \in SUBSET AllFields
    /\ call = NoCall
    /\ artifact = "pipeline"
    /\ phase = "starting"
    /\ predictor = NoPredictor
    /\ loadLog = <<>>
    /\ returned = {}
    /\ reqLog = <<>>
    /\ response = NoResponse

NextValidate == CallValidateInput

SpecValidate == InitValidate /\ [][NextValidate]_vars

----------------------------------------------------------------------------
(* Properties of the transformers (SpecPipe) *)

DeltaCols == <<"co2_delta", "light_delta", "hr_delta", "temp_delta">>
RateCols == <<"co2_rate", "light_rate", "hr_rate", "temp_rate">>

FeatureCall ==
    /\ call.op \in {"FeatureEngineer.transform", "Pipeline.transform"}
    /\ call.err = None

FirstRowZero ==
    \A j \in 1..4 : /\ call.out.rows[1][DeltaCols[j]] = Num(0)
                    /\ call.out.rows[1][RateCols[j]] = Num(0)

\* C1: the first row of every batch (so also a single reading) comes out of
\* FeatureEngineer.transform, alone or as the last pipeline stage, with all
\* eight delta and rate features equal to 0.0, and FeatureEngineer.transform
\* raises no error.
Theorem_C1 ==
    /\ call.op = "FeatureEngineer.transform" => call.err = None
    /\ FeatureCall => FirstRowZero

Witness_C1 ==
    /\ call.op = "FeatureEngineer.transform"
    /\ Len(input) = 1
    /\ call.out.rows[1]["co2_rate"] = Num(0)
    /\ call.out.rows[1]["temp_delta"] = Num(0)

SameTimestamp(i) == i >= 2 /\ input[i].datetime = input[i - 1].datetime
LaterTimestamp(i) == i >= 2 /\ input[i].datetime.n > input[i - 1].datetime.n

\* C2: when two consecutive readings have the same timestamp, every rate
\* feature of the later row is 0.0, whatever the delta.
Claim_C2 ==
    FeatureCall =>
        \A i \in 1..Len(input) : SameTimestamp(i) =>
            \A j \in 1..4 : call.out.rows[i][RateCols[j]] = Num(0)

Fill0(v) == IF IsNaN(v) THEN Num(0) ELSE v

MinutesElapsed(i) == Q(input[i].datetime.n - input[i - 1].datetime.n, 60)

RawCols == <<"CO2", "Light", "HumidityRatio", "Temperature">>

StageValue(r, j, l) ==
    IF j = 1 THEN boxcox(r.CO2, l.n)
    ELSE IF j = 2 THEN Num(BinIndex(r.Light))
    ELSE r[RawCols[j]]

Theorem_C10 ==
    (call.op = "TransformCO2.transform" /\ call.before # NoneVal) =>
        /\ call.err = None
        /\ call.estimated = NoneVal
        /\ lambda_ = call.before
        /\ \A i \in 1..Len(input) :
               call.out.rows[i]["CO2"] = boxcox(input[i].CO2, call.before.n)

Witness_C10 ==
    /\ call.op = "TransformCO2.transform"
    /\ call.before = Num(2)
    /\ Len(input) = 2
    /\ input[1].CO2 = Num(400)
    /\ input[2].CO2 = Num(450)
    /\ call.out.rows[2]["CO2"] = Q(202499, 2)


----------------------------------------------------------------------------
(* Properties of validate_input (SpecValidate) *)

SixRequired ==
    <<"datetime", "Temperature", "Humidity", "Light", "CO2", "HumidityRatio">>

Absent == {f \in {SixRequired[i] : i \in 1..6} : f \notin input}

PosOf(f) == CHOOSE i \in 1..6 : SixRequired[i] = f

\* C3: validate_input raises exactly when a required field is absent, the
\* error lists exactly the absent required fields in the required-field
\* order, and with none absent it returns True.
Theorem_C3 ==
    call.op = "validate_input" =>
        /\ (call.err = "ValueError") <=> (Absent # {})
        /\ call.err = "ValueError" =>
              /\ {call.missing[i] : i \in 1..Len(call.missing)} = Absent
              /\ Len(call.missing) = Cardinality(Absent)
              /\ \A i, j \in 1..Len(call.missing) :
                     i < j => PosOf(call.missing[i]) < PosOf(call.missing[j])
        /\ Absent = {} => (call.err = None /\ call.ret = "True")

Witness_C3 ==
    /\ call.op = "validate_input"
    /\ "Occupancy" \in input
    /\ call.err = "ValueError"
    /\ call.missing = <<"CO2", "HumidityRatio">>

----------------------------------------------------------------------------
(* Properties of the service (Spec) *)

\* C4: a /predict request with a CO2 value that is zero or negative is
\* rejected as invalid input and nothing is handed to the classifier.
Claim_C4 ==
    \A i \in 1..Len(reqLog) :
        reqLog[i].input.CO2.n <= 0 =>
            /\ reqLog[i].outcome.status = 422
            /\ reqLog[i].outcome.features = NoFeatures

\* C5: when the artifact cannot be loaded the service never becomes ready
\* and answers no request, and only the startup ever runs the load: no
\* handler loads the artifact.
Theorem_C5 ==
    /\ artifact = "missing" =>
          /\ phase # "ready"
          /\ reqLog = <<>>
          /\ response = NoResponse
    /\ \A i \in 1..Len(loadLog) : loadLog[i] = "lifespan"

Witness_C5 ==
    /\ artifact = "missing"
    /\ phase = "failed"
    /\ loadLog = <<"lifespan">>
    /\ predictor = NoPredictor

\* C6: over every sequence of get_predictor calls the artifact is loaded at
\* most once, every call returns the same instance, and that instance's
\* model stays the one loaded.
Theorem_C6 ==
    /\ Len(loadLog) <= 1
    /\ Cardinality(returned) <= 1
    /\ predictor # NoPredictor =>
          /\ returned = {predictor.id}
          /\ predictor.model = artifact

Witness_C6 ==
    /\ Len(reqLog) >= 2
    /\ response.handler = "health_check"
    /\ response.status = 200
    /\ Len(loadLog) = 1
    /\ returned = {1}

\* C7: two /predict requests with the same input fields get the same
\* result, whatever was requested before or between them.
Theorem_C7 ==
    \A i, j \in 1..Len(reqLog) :
        reqLog[i].input = reqLog[j].input =>
            reqLog[i].outcome = reqLog[j].outcome

Witness_C7 ==
    /\ Len(reqLog) = 3
    /\ reqLog[1].input = reqLog[3].input
    /\ reqLog[2].input # reqLog[1].input
    /\ reqLog[1].outcome.status = 200
    /\ reqLog[2].outcome.status = 200
    /\ reqLog[2].outcome.prediction # reqLog[1].outcome.prediction
    /\ reqLog[3].outcome.prediction = reqLog[1].outcome.prediction

TimeAndDeltaCols ==
    <<"hour", "day_of_week", "hour_sin", "hour_cos",
      "co2_delta", "light_delta", "hr_delta", "temp_delta",
      "co2_rate", "light_rate", "hr_rate", "temp_rate">>

\* C8 as stated: the classifier gets temperature, humidity, co2,
\* humidity_ratio, light and then the twelve derived features, in this order.
Claim_C8 ==
    \A i \in 1..Len(reqLog) :
        reqLog[i].outcome.status = 200 =>
            reqLog[i].outcome.features.cols =
                <<"Temperature", "Humidity", "CO2", "HumidityRatio", "Light">>
                    \o TimeAndDeltaCols

\* C8 amended: the classifier gets no timestamp column and exactly 17
\* features in the order temperature, humidity, light (bin index), co2
\* (transformed), humidity_ratio and then the twelve derived features.
Theorem_C8 ==
    \A i \in 1..Len(reqLog) :
        reqLog[i].outcome.status = 200 =>
            LET f == reqLog[i].outcome.features
            IN  /\ f.cols = <<"Temperature", "Humidity", "Light", "CO2",
                              "HumidityRatio">> \o TimeAndDeltaCols
                /\ Len(f.cols) = 17
                /\ Len(f.rows) = 1
                /\ DOMAIN f.rows[1] = {f.cols[j] : j \in 1..Len(f.cols)}
                /\ f.rows[1]["Light"] = Num(BinIndex(reqLog[i].input.Light))
                /\ f.rows[1]["CO2"] = Fill0(boxcox(reqLog[i].input.CO2, lambda_.n))

Witness_C8 ==
    \E i \in 1..Len(reqLog) :
        /\ reqLog[i].outcome.status = 200
        /\ reqLog[i].input.CO2 = Num(450)
        /\ reqLog[i].outcome.features.cols[3] = "Light"
        /\ reqLog[i].outcome.features.rows[1]["Light"] = Num(2)

----------------------------------------------------------------------------
(* C11 : classification of errors by predict_occupancy *)

\* a logged request whose datetime does not parse
Malformed(e) == e.input.datetime.k # "time"

\* a logged request for which a stage of the transform chain raises
StageFailure(e) ==
    /\ ~Malformed(e)
    /\ Pipeline_transform(RequestFrame(e.input), lambda_).err # None

\* C11: a malformed input field is answered 422, while every failure raised
\* inside a transform stage is answered 500 with the generic message, never
\* with the text of the exception and never as a client error.
Claim_C11 ==
    \A i \in 1..Len(reqLog) :
        /\ Malformed(reqLog[i]) => reqLog[i].outcome.status = 422
        /\ StageFailure(reqLog[i]) =>
              /\ reqLog[i].outcome.status = 500
              /\ reqLog[i].outcome.detail = GenericText

====
